---- MODULE Spec2Model ----
(***************************************************************************)
(* Model of the useLive2D hook (components/live2d-viewer/use-live2d.ts),   *)
(* the session controller of the Live2D previewer: one mounted view, its   *)
(* Pixi application, the load runs started by the load effect, the module  *)
(* cache of the loader, the pointer wiring and the unmount cleanups.       *)
(*                                                                         *)
(* React is modelled by what it guarantees: a state setter followed by the *)
(* re-render and the effects whose dependencies changed is one step; an    *)
(* await is a point where any other handler may run first.                 *)
(***************************************************************************)
EXTENDS Integers, Sequences, FiniteSets, TLC

(* ---------------------------- bounds ----------------------------------- *)

\* number of load runs the load effect may start in one behaviour
MaxLoads == 3
\* number of times the unmount cleanups are invoked
MaxTeardowns == 2
\* pointer coordinates (surface-local x) drawn for mouse events
MaxCoord == 2
\* frame callbacks that may be pending at once
MaxPending == 2
\* entries of an expressions array handed to the extractor
MaxEntries == 2
\* groups of a motions map, and items of one group
MaxGroups == 2
MaxItems == 2
\* widths and heights are 200, 400, ... MaxDim * 200
MaxDim == 4

(* ---------------------------- catalog ---------------------------------- *)

MODEL_NAMES ==
  <<"Haru", "Hiyori", "Mao", "Mark", "Natori", "Ren", "Rice", "Wanko">>

DEFAULT_MODEL == "Haru"

\* line 12: the type ModelName, the entries of MODEL_NAMES
ModelName == {MODEL_NAMES[i] : i \in DOMAIN MODEL_NAMES}

\* variant: every identifier is given the manifest of the default model
getModelPathOfDefault(name) ==
  "/live2d/" \o DEFAULT_MODEL \o "/" \o DEFAULT_MODEL \o ".model3.json"

\* lines 14-16: the template literal `/live2d/${name}/${name}.model3.json`
getModelPath(name) == "/live2d/" \o name \o "/" \o name \o ".model3.json"

\* the identifiers the user picks in the checked behaviours
SelectableModels == {"Haru", "Rice"}

(* ----------------------- loader results -------------------------------- *)

\* An expression entry { Name?, name? }: a missing field is "" (both are
\* falsy in `e.Name || e.name`).
Expr(N, n) == [Name |-> N, name |-> n]
Grp(g, k) == [group |-> g, items |-> k]

\* internalModel?.settings of the handles the loader may hand back: a handle
\* without settings, and one with expressions and motions
SettingsCases ==
  { [present |-> FALSE, hasExpressions |-> FALSE, expressions |-> <<>>,
     hasMotions |-> FALSE, motions |-> <<>>],
    [present |-> TRUE, hasExpressions |-> TRUE,
     expressions |-> <<Expr("F01", ""), Expr("", "f02"), Expr("", ""),
                       Expr("F01", "other")>>,
     hasMotions |-> TRUE,
     motions |-> <<Grp("A", 2), Grp("B", 1)>>] }

\* variant: the alternate field is preferred
ExprNameAlternateFirst(e) == IF e.name # "" THEN e.name ELSE e.Name

\* lines 152-158: (settings?.expressions ?? []).map(e => e.Name || e.name)
\*                  .filter(Boolean)
ExprName(e) == IF e.Name # "" THEN e.Name ELSE e.name

RECURSIVE FilterNames(_)
FilterNames(es) ==
  IF es = <<>> THEN <<>>
  ELSE LET n == ExprName(Head(es))
       IN  IF n # "" THEN <<n>> \o FilterNames(Tail(es))
           ELSE FilterNames(Tail(es))

\* variant: a handle without expressions gets a placeholder entry
ExtractExpressionsDefaulted(settings) ==
  IF settings.present /\ settings.hasExpressions
  THEN FilterNames(settings.expressions)
  ELSE <<"default">>

ExtractExpressions(settings) ==
  IF settings.present /\ settings.hasExpressions
  THEN FilterNames(settings.expressions)
  ELSE <<>>

\* variant: the index counts from one
MotionEntryOneBased(g, index) ==
  [group |-> g, name |-> <<g, " #", index + 1>>, index |-> index + 1]

\* lines 160-169: one entry per item of every group, name `${group} #${index+1}`
MotionEntry(g, index) ==
  [group |-> g, name |-> <<g, " #", index + 1>>, index |-> index]

GroupEntries(g) == [i \in 1..g.items |-> MotionEntry(g.group, i - 1)]

RECURSIVE AllEntries(_)
AllEntries(gs) ==
  IF gs = <<>> THEN <<>>
  ELSE GroupEntries(Head(gs)) \o AllEntries(Tail(gs))

ExtractMotions(settings) ==
  IF settings.present /\ settings.hasMotions
  THEN AllEntries(settings.motions)
  ELSE <<>>

(* ----------------------- scale and centre ------------------------------ *)

GCD[a \in Nat, b \in Nat] == IF b = 0 THEN a ELSE GCD[b, a % b]

\* JavaScript numbers as exact fractions in lowest terms, the denominator
\* positive
Rat[n \in Int, d \in Nat] ==
  LET g == GCD[IF n < 0 THEN -n ELSE n, d]
  IN  [num |-> n \div g, den |-> d \div g]
RatEq(a, b) == a.num * b.den = b.num * a.den
RatLeq(a, b) == a.num * b.den <= b.num * a.den
RatMin(a, b) == IF RatLeq(a, b) THEN a ELSE b
RatMul(a, b) == Rat[a.num * b.num, a.den * b.den]
RatDiv(a, b) == Rat[a.num * b.den, a.den * b.num]
RatSub(a, b) == Rat[a.num * b.den - b.num * a.den, a.den * b.den]

\* variant: width and height are the dimensions reported at load time
SizeUnscaled(local, scale) == Rat[local, 1]

\* model.width / model.height: the getters of a Pixi container, the local
\* bounds times the scale
SizeGetter(local, scale) == RatMul(Rat[local, 1], scale)

\* lines 143-145: Math.min(scaleX, scaleY) * 0.8, width and height read at
\* scale 1
FitScale(screenW, screenH, w, h) ==
  RatMul(RatMin(RatDiv(Rat[screenW, 1], SizeGetter(w, Rat[1, 1])),
                RatDiv(Rat[screenH, 1], SizeGetter(h, Rat[1, 1]))),
         Rat[4, 5])

\* lines 146-147: (app.screen.width - model.width) / 2, read after scale.set
FitOffset(screen, local, scale) ==
  RatDiv(RatSub(Rat[screen, 1], SizeGetter(local, scale)), Rat[2, 1])

\* what Live2DModel.from resolves with: the model's own dimensions and its
\* internalModel?.settings
Loaded(w, h, settings) == [width |-> w, height |-> h, settings |-> settings]

\* the models the loader hands back in the behaviours of the whole hook
ModelCases == {Loaded(400, 800, settings) : settings \in SettingsCases}

\* the size of the container the application resizes to (line 106)
ContainerWidth == 800
ContainerHeight == 600

(* ---------------------------- state ------------------------------------ *)

VARIABLES
  selectedModel,   \* useState(DEFAULT_MODEL)
  appReady,        \* useState(false)
  isLoading,       \* useState(true)
  error,           \* useState(null): <<>> is null, otherwise the message
  expressions,     \* useState([])
  motions,         \* useState([])
  pixiAppRef,      \* 0 (null) or the id of the stored surface
  live2dModelRef,  \* 0 (null) or the id of the stored handle
  rafIdRef,        \* id of the frame request made last, 0 before the first
  frameQueue,      \* the frame callbacks requested and not yet run or cancelled
  live2dModule,    \* module-level cache of the loader import
  importCount,     \* how many times import("pixi-live2d-display/cubism4") ran
  initPc,          \* createPixiApp promise: "pending" or "settled"
  initAborted,     \* abort.signal.aborted of the init effect
  loadCleanup,     \* run whose abort the load effect's cleanup holds, 0 if none
  runs,            \* the calls of loadLive2DModel, in start order
  handles,         \* the handles Live2DModel.from has produced
  stage,           \* children of app.stage
  surfaces,        \* the PIXI.Application objects constructed
  listeners,       \* container has the mousemove/click listeners
  forwarded,       \* the focus/tap/expression/motion calls the step delivered
  event,           \* the shell or pointer event the step handled, if any
  unmounted        \* how many times the cleanups have run

session == <<selectedModel, appReady, isLoading, error, expressions, motions>>
refs == <<pixiAppRef, live2dModelRef>>
loader == <<live2dModule, importCount>>
initEff == <<initPc, initAborted>>
loadEff == <<loadCleanup, runs>>
world == <<handles, stage, surfaces>>
pointer == <<listeners, rafIdRef, frameQueue>>

vars ==
  <<session, refs, loader, initEff, loadEff, world, pointer, forwarded, event,
    unmounted>>

NoError == <<>>
LoadError(modelName) == <<"Failed to load", modelName>>
InitError == <<"Failed to initialize rendering engine.">>

Coords == 1..MaxCoord

\* variant: the loading flag starts cleared
InitialLoadingCleared == FALSE

\* line 90: useState(true)
InitialLoading == TRUE

Init ==
  /\ selectedModel = DEFAULT_MODEL
  /\ appReady = FALSE
  /\ isLoading = InitialLoading
  /\ error = NoError
  /\ expressions = <<>>
  /\ motions = <<>>
  /\ pixiAppRef = 0
  /\ live2dModelRef = 0
  /\ rafIdRef = 0
  /\ frameQueue = <<>>
  /\ live2dModule = "null"
  /\ importCount = 0
  /\ initPc = "pending"
  /\ initAborted = FALSE
  /\ loadCleanup = 0
  /\ runs = <<>>
  /\ handles = <<>>
  /\ stage = {}
  /\ surfaces = <<>>
  /\ listeners = TRUE
  /\ forwarded = <<>>
  /\ event = <<>>
  /\ unmounted = 0

(* ------------------- pieces of loadLive2DModel ------------------------- *)

\* variant: the previous model is left on the stage
StageKeptOnTearDown(st, ref) == st

\* lines 122-127, "Tear down previous model": app.stage.removeChild(ref)
StageAfterTearDown(st, ref) == IF ref # 0 THEN st \ {ref} ELSE st

\* variant: the previous model is not destroyed
HandlesKeptOnTearDown(hs, ref) == hs

\* lines 122-127: live2dModelRef.current.destroy()
HandlesAfterTearDown(hs, ref) ==
  IF ref # 0 THEN [hs EXCEPT ![ref].destroyed = @ + 1] ELSE hs

\* variant: the ref keeps naming the destroyed model
RefKeptAfterTearDown(ref) == ref

\* line 126: live2dModelRef.current = null
RefAfterTearDown(ref) == 0

\* variant: the signal is never consulted after an await
SignalNeverAborted(run) == FALSE

\* line 131 and line 137: if (signal?.aborted)
SignalAborted(run) == run.aborted

\* variant: the catch block reports the failure of an aborted run too
CatchNeverAborted(run) == FALSE

\* variant: the catch block always returns early
CatchAlwaysAborted(run) == TRUE

\* line 171: if (signal?.aborted) return, in the catch block
CatchAborted(run) == run.aborted

\* variant: every call imports the module anew
ModuleReimported(m) == "pending"

\* variant: a rejected import is started again by the next call
ModuleRetriedAfterFailure(m) ==
  IF m \in {"null", "rejected"} THEN "pending" ELSE m

\* line 73: live2dModule ??= import(...)
ModuleAfterGet(m) == IF m = "null" THEN "pending" ELSE m
ImportsAfterGet(m, n) == IF m = "null" THEN n + 1 ELSE n

\* variant: the run loads the model the hook was first rendered with
NewRunStale(app, modelName) ==
  [model |-> DEFAULT_MODEL, app |-> app, aborted |-> FALSE,
   pc |-> "awaitModule", path |-> getModelPath(DEFAULT_MODEL), handle |-> 0,
   outcome |-> "pending"]

\* a call of loadLive2DModel(app, modelName, signal) up to its first await
\* (lines 117-130); path is the manifest the run asks Live2DModel.from for
\* (line 134)
NewRun(app, modelName) ==
  [model |-> modelName, app |-> app, aborted |-> FALSE,
   pc |-> "awaitModule", path |-> getModelPath(modelName), handle |-> 0,
   outcome |-> "pending"]

\* variant: a run starts without setIsLoading(true)
LoadingKeptAtLoadStart == isLoading

\* line 119: setIsLoading(true)
LoadingAtLoadStart == TRUE

\* variant: a run starts without setError(null)
ErrorKeptAtLoadStart == error

\* line 120: setError(null)
ErrorAtLoadStart == NoError

\* variant: the cleanup does not abort the run
AbortRunForgotten(rs, r) == rs

\* abort.abort() of the load effect's cleanup (line 222)
AbortRun(rs, r) == IF r # 0 THEN [rs EXCEPT ![r].aborted = TRUE] ELSE rs

\* variant: the effect loads whether or not the application exists
EffectNeverSkips(ready, app) == FALSE

\* line 218: if (!appReady || !pixiAppRef.current) return
EffectSkips(ready, app) == ~ready \/ app = 0

\* The load effect (lines 217-223) re-run for the dependencies (ready, sel):
\* cleanup of the previous run of the effect, then its body.
LoadEffect(ready, app, sel) ==
  IF EffectSkips(ready, app)
  THEN /\ runs' = AbortRun(runs, loadCleanup)
       /\ loadCleanup' = 0
       /\ UNCHANGED <<isLoading, error, live2dModelRef, handles, stage,
                      live2dModule, importCount>>
  ELSE /\ runs' = Append(AbortRun(runs, loadCleanup), NewRun(app, sel))
       /\ loadCleanup' = Len(runs) + 1
       /\ isLoading' = LoadingAtLoadStart
       /\ error' = ErrorAtLoadStart
       /\ stage' = StageAfterTearDown(stage, live2dModelRef)
       /\ handles' = HandlesAfterTearDown(handles, live2dModelRef)
       /\ live2dModelRef' = RefAfterTearDown(live2dModelRef)
       /\ live2dModule' = ModuleAfterGet(live2dModule)
       /\ importCount' = ImportsAfterGet(live2dModule, importCount)

(* ---------------------------- actions ---------------------------------- *)

\* a step that calls no method of a handle
NoCall == forwarded' = <<>>

\* a step that handles no event of the shell or the pointer
NoEvent == event' = <<>>

\* the event a step handles: its handler, the identifier or coordinate it
\* carries, and the coordinate of the frame request it cancelled (0: none)
Event(op, id, x, dropped) ==
  <<[op |-> op, id |-> id, x |-> x, dropped |-> dropped]>>

\* line 223: the dependency array [appReady, selectedModel, loadLive2DModel];
\* the effect re-runs only when the selection differs from the previous one
SelectionChanges(id, sel) == id # sel

\* variant: the init effect lists selectedModel among its dependencies, so a
\* selection runs its cleanup (lines 208-212) and creates the application anew
SelectModelRemounting(id) ==
  /\ unmounted = 0
  /\ id # selectedModel
  /\ selectedModel' = id
  /\ surfaces' = [ss \in 1..Len(surfaces) |->
                    IF ss = pixiAppRef
                    THEN [surfaces[ss] EXCEPT !.destroyed = @ + 1]
                    ELSE surfaces[ss]]
  /\ pixiAppRef' = 0
  /\ initPc' = "pending"
  /\ initAborted' = FALSE
  /\ LoadEffect(appReady, 0, id)
  /\ NoCall
  /\ event' = Event("setSelectedModel", id, 0, 0)
  /\ UNCHANGED <<appReady, expressions, motions, pointer, unmounted>>

\* setSelectedModel(id) from the shell, with the re-render it causes.  React
\* skips the re-render (and so the effect) when the state is unchanged.
SelectModel(id) ==
  /\ unmounted = 0
  /\ (appReady /\ pixiAppRef # 0 /\ SelectionChanges(id, selectedModel))
       => Len(runs) < MaxLoads
  /\ NoCall
  /\ event' = Event("setSelectedModel", id, 0, 0)
  /\ IF ~SelectionChanges(id, selectedModel)
     THEN UNCHANGED <<session, refs, loader, initEff, loadEff, world, pointer,
                      unmounted>>
     ELSE /\ selectedModel' = id
          /\ LoadEffect(appReady, pixiAppRef, id)
          /\ UNCHANGED <<appReady, expressions, motions, pixiAppRef, initEff,
                         surfaces, pointer, unmounted>>

\* variant: the .then handler does not consult the signal
InitNeverAborted == FALSE

\* line 194: if (abort.signal.aborted) in the .then of createPixiApp
InitAborted == initAborted

\* variant: the .catch handler always returns early
InitCatchAlwaysAborted == TRUE

\* line 202: if (abort.signal.aborted) return, in the .catch of createPixiApp
InitCatchAborted == initAborted

NewSurface(returned, destroyed) ==
  [returned |-> returned, destroyed |-> destroyed,
   width |-> ContainerWidth, height |-> ContainerHeight]

\* createPixiApp resolves (lines 97-113) and the .then handler runs
\* (lines 193-200)
InitResolved ==
  /\ initPc = "pending"
  /\ initPc' = "settled"
  /\ IF InitAborted
     THEN /\ surfaces' = Append(surfaces, NewSurface(TRUE, 1))
          /\ UNCHANGED <<session, refs, loader, loadEff, handles, stage>>
     ELSE /\ surfaces' = Append(surfaces, NewSurface(TRUE, 0))
          /\ pixiAppRef' = Len(surfaces) + 1
          /\ appReady' = TRUE
          /\ LoadEffect(TRUE, Len(surfaces) + 1, selectedModel)
          /\ UNCHANGED <<selectedModel, expressions, motions>>
  /\ NoCall
  /\ NoEvent
  /\ UNCHANGED <<initAborted, pointer, unmounted>>

\* createPixiApp rejects and the .catch handler runs (lines 201-206).
\* allocated: the PIXI.Application had been constructed (line 104) before the
\* failure (container.appendChild threw); otherwise import("pixi.js") or the
\* constructor failed.
InitRejected(allocated) ==
  /\ initPc = "pending"
  /\ initPc' = "settled"
  /\ surfaces' = IF allocated THEN Append(surfaces, NewSurface(FALSE, 0))
                 ELSE surfaces
  /\ IF InitCatchAborted
     THEN UNCHANGED <<error, isLoading>>
     ELSE /\ error' = InitError
          /\ isLoading' = FALSE
  /\ NoCall
  /\ NoEvent
  /\ UNCHANGED <<selectedModel, appReady, expressions, motions, refs, loader,
                 initAborted, loadEff, handles, stage, pointer, unmounted>>

\* the import of the loader module settles
ModuleSettle(ok) ==
  /\ live2dModule = "pending"
  /\ live2dModule' = IF ok THEN "resolved" ELSE "rejected"
  /\ NoCall
  /\ NoEvent
  /\ UNCHANGED <<session, refs, importCount, initEff, loadEff, world, pointer,
                 unmounted>>

RunDone(rs, r, outcome, h) ==
  [rs EXCEPT ![r].pc = "done", ![r].outcome = outcome, ![r].handle = h]

\* variant: a run returns without setIsLoading(false)
LoadingKeptAfterLoad == isLoading

\* line 179: setIsLoading(false)
LoadingAfterLoad == FALSE

\* variant: a failed load keeps the expressions of the previous model
ExpressionsKeptOnFailure == expressions

\* lines 173-174: setExpressions([]); setMotions([])
ExpressionsAfterFailure == <<>>
MotionsAfterFailure == <<>>

\* lines 170-179: the catch block and the trailing setIsLoading(false)
LoadCatch(r) ==
  IF CatchAborted(runs[r])
  THEN /\ runs' = RunDone(runs, r, "aborted", 0)
       /\ UNCHANGED session
  ELSE /\ runs' = RunDone(runs, r, "failed", 0)
       /\ expressions' = ExpressionsAfterFailure
       /\ motions' = MotionsAfterFailure
       /\ error' = LoadError(runs[r].model)
       /\ isLoading' = LoadingAfterLoad
       /\ UNCHANGED <<selectedModel, appReady>>

\* lines 130-134: await getLive2DModule() resumes with the module and the
\* run calls Live2DModel.from(getModelPath(modelName))
LoadGotModule(r) ==
  /\ r \in 1..Len(runs)
  /\ runs[r].pc = "awaitModule"
  /\ live2dModule = "resolved"
  /\ runs' = IF SignalAborted(runs[r])
             THEN RunDone(runs, r, "aborted", 0)
             ELSE [runs EXCEPT ![r].pc = "awaitModel",
                               ![r].path = getModelPath(runs[r].model)]
  /\ NoCall
  /\ NoEvent
  /\ UNCHANGED <<session, refs, loader, initEff, loadCleanup, world, pointer,
                 unmounted>>

\* line 130: await getLive2DModule() throws
LoadModuleFailed(r) ==
  /\ r \in 1..Len(runs)
  /\ runs[r].pc = "awaitModule"
  /\ live2dModule = "rejected"
  /\ LoadCatch(r)
  /\ NoCall
  /\ NoEvent
  /\ UNCHANGED <<refs, loader, initEff, loadCleanup, world, pointer, unmounted>>

\* the handle of run r: an attached one has been scaled and centred on the
\* screen of the run's application (lines 142-147)
NewHandle(r, loaded, destroyed, attached) ==
  LET screen == surfaces[runs[r].app]
      scale == IF attached
               THEN FitScale(screen.width, screen.height,
                             loaded.width, loaded.height)
               ELSE Rat[1, 1]
  IN  [model |-> runs[r].model, run |-> r, settings |-> loaded.settings,
       destroyed |-> destroyed, everAttached |-> attached,
       width |-> loaded.width, height |-> loaded.height,
       scale |-> scale,
       x |-> IF attached THEN FitOffset(screen.width, loaded.width, scale)
             ELSE Rat[0, 1],
       y |-> IF attached THEN FitOffset(screen.height, loaded.height, scale)
             ELSE Rat[0, 1]]

\* lines 133-169 and 179: Live2DModel.from resolves with a handle
LoadResolved(r, loaded) ==
  /\ r \in 1..Len(runs)
  /\ runs[r].pc = "awaitModel"
  /\ LET h == Len(handles) + 1 IN
     IF SignalAborted(runs[r])
     THEN /\ handles' = Append(handles, NewHandle(r, loaded, 1, FALSE))
          /\ runs' = RunDone(runs, r, "aborted", h)
          /\ UNCHANGED <<session, live2dModelRef, stage>>
     ELSE /\ handles' = Append(handles, NewHandle(r, loaded, 0, TRUE))
          /\ runs' = RunDone(runs, r, "attached", h)
          /\ stage' = stage \cup {h}
          /\ live2dModelRef' = h
          /\ expressions' = ExtractExpressions(loaded.settings)
          /\ motions' = ExtractMotions(loaded.settings)
          /\ isLoading' = LoadingAfterLoad
          /\ UNCHANGED <<selectedModel, appReady, error>>
  /\ NoCall
  /\ NoEvent
  /\ UNCHANGED <<pixiAppRef, loader, initEff, loadCleanup, surfaces, pointer,
                 unmounted>>

\* line 133: Live2DModel.from rejects
LoadRejected(r) ==
  /\ r \in 1..Len(runs)
  /\ runs[r].pc = "awaitModel"
  /\ LoadCatch(r)
  /\ NoCall
  /\ NoEvent
  /\ UNCHANGED <<refs, loader, initEff, loadCleanup, world, pointer, unmounted>>

(* ------------------------- frame requests ------------------------------ *)

\* variant: the pending request is not cancelled
FrameQueueNotCancelled(q, id) == q

\* lines 234 and 251: cancelAnimationFrame(rafIdRef.current)
FrameQueueAfterCancel(q, id) == SelectSeq(q, LAMBDA c : c.id # id)

\* the id requestAnimationFrame returns: one no pending request carries
FreshFrameId(q) ==
  CHOOSE n \in 1..(Len(q) + 1) : \A i \in 1..Len(q) : q[i].id # n

\* line 235: requestAnimationFrame(callback), the callback closing over the
\* handle read at line 232 and the event
FrameRequest(q, h, x) == [id |-> FreshFrameId(q), model |-> h, x |-> x]

\* the coordinate of the request that cancelling took out of the queue
DroppedCoord(before, after) ==
  IF Len(after) < Len(before) THEN before[Len(before)].x ELSE 0

(* ------------------------- unmount cleanups ---------------------------- *)

\* variant: the cleanup does not destroy the application
SurfacesKeptOnCleanup(ss, ref) == ss

\* lines 209-211: pixiAppRef.current?.destroy(true)
SurfacesAfterCleanup(ss, ref) ==
  IF ref # 0 THEN [ss EXCEPT ![ref].destroyed = @ + 1] ELSE ss

\* variant: the ref keeps naming the destroyed application
AppRefKeptAfterCleanup(ref) == ref

\* line 211: pixiAppRef.current = null
AppRefAfterCleanup(ref) == 0

\* variant: the cleanup leaves the listeners on the container
ListenersKeptOnCleanup == listeners

\* lines 252-253: removeEventListener("mousemove" / "click")
ListenersAfterCleanup == FALSE

\* The cleanups of the three effects, in the order React runs them at
\* unmount: lines 208-212, line 222, lines 250-254.
Teardown ==
  /\ unmounted < MaxTeardowns
  /\ unmounted' = unmounted + 1
  /\ initAborted' = TRUE
  /\ surfaces' = SurfacesAfterCleanup(surfaces, pixiAppRef)
  /\ pixiAppRef' = AppRefAfterCleanup(pixiAppRef)
  /\ runs' = AbortRun(runs, loadCleanup)
  /\ frameQueue' = FrameQueueAfterCancel(frameQueue, rafIdRef)
  /\ listeners' = ListenersAfterCleanup
  /\ NoCall
  /\ event' = Event("unmount", "", 0, DroppedCoord(frameQueue, frameQueue'))
  /\ UNCHANGED <<session, live2dModelRef, rafIdRef, loader, initPc,
                 loadCleanup, handles, stage>>

(* ------------------------- pointer and actions ------------------------- *)

Call(kind, h, x, name, group, index) ==
  <<[kind |-> kind, model |-> h, x |-> x, name |-> name, group |-> group,
     index |-> index]>>

\* variant: the handlers go on without a handle
HandleNeverMissing(ref) == FALSE

\* lines 233 and 243: if (!model) return
HandleMissing(ref) == ref = 0

\* lines 231-239: handleMouseMove
MouseMove(x) ==
  /\ listeners
  /\ NoCall
  /\ IF HandleMissing(live2dModelRef)
     THEN /\ event' = Event("mousemove", "", x, 0)
          /\ UNCHANGED <<rafIdRef, frameQueue>>
     ELSE LET q == FrameQueueAfterCancel(frameQueue, rafIdRef)
              c == FrameRequest(q, live2dModelRef, x)
          IN  /\ Len(q) < MaxPending
              /\ event' = Event("mousemove", "", x, DroppedCoord(frameQueue, q))
              /\ frameQueue' = Append(q, c)
              /\ rafIdRef' = c.id
  /\ UNCHANGED <<session, refs, loader, initEff, loadEff, world, listeners,
                 unmounted>>

\* the calls the callbacks of one frame make, in request order
RECURSIVE FrameCalls(_)
FrameCalls(q) ==
  IF q = <<>> THEN <<>>
  ELSE Call("focus", Head(q).model, Head(q).x, "", "", 0) \o FrameCalls(Tail(q))

\* lines 235-238: the frame boundary: the browser runs the callbacks requested
\* for this frame
Frame ==
  /\ frameQueue # <<>>
  /\ forwarded' = FrameCalls(frameQueue)
  /\ frameQueue' = <<>>
  /\ NoEvent
  /\ UNCHANGED <<session, refs, loader, initEff, loadEff, world, listeners,
                 rafIdRef, unmounted>>

\* lines 241-246: handleClick
Click(x) ==
  /\ listeners
  /\ event' = Event("click", "", x, 0)
  /\ forwarded' = IF HandleMissing(live2dModelRef) THEN <<>>
                  ELSE Call("tap", live2dModelRef, x, "", "", 0)
  /\ UNCHANGED <<session, refs, loader, initEff, loadEff, world, pointer,
                 unmounted>>

\* variant: the expression callback triggers a motion
PlayExpressionAsMotion(name) ==
  /\ unmounted = 0
  /\ event' = Event("playExpression", name, 0, 0)
  /\ forwarded' = IF live2dModelRef = 0 THEN <<>>
                  ELSE Call("motion", live2dModelRef, 0, "", name, 0)
  /\ UNCHANGED <<session, refs, loader, initEff, loadEff, world, pointer,
                 unmounted>>

\* lines 259-261: playExpression
PlayExpression(name) ==
  /\ unmounted = 0
  /\ event' = Event("playExpression", name, 0, 0)
  /\ forwarded' = IF live2dModelRef = 0 THEN <<>>
                  ELSE Call("expression", live2dModelRef, 0, name, "", 0)
  /\ UNCHANGED <<session, refs, loader, initEff, loadEff, world, pointer,
                 unmounted>>

\* lines 263-265: playMotion
PlayMotion(group, index) ==
  /\ unmounted = 0
  /\ event' = Event("playMotion", group, index, 0)
  /\ forwarded' = IF live2dModelRef = 0 THEN <<>>
                  ELSE Call("motion", live2dModelRef, 0, "", group, index)
  /\ UNCHANGED <<session, refs, loader, initEff, loadEff, world, pointer,
                 unmounted>>

Next ==
  \/ \E id \in SelectableModels : SelectModel(id)
  \/ InitResolved
  \/ \E allocated \in BOOLEAN : InitRejected(allocated)
  \/ \E ok \in BOOLEAN : ModuleSettle(ok)
  \/ \E r \in 1..MaxLoads : LoadGotModule(r)
  \/ \E r \in 1..MaxLoads : LoadModuleFailed(r)
  \/ \E r \in 1..MaxLoads, loaded \in ModelCases : LoadResolved(r, loaded)
  \/ \E r \in 1..MaxLoads : LoadRejected(r)
  \/ Teardown
  \/ \E x \in Coords : MouseMove(x)
  \/ Frame
  \/ \E x \in Coords : Click(x)
  \/ \E name \in {"F01"} : PlayExpression(name)
  \/ \E group \in {"A"}, index \in {0} : PlayMotion(group, index)

Spec == Init /\ [][Next]_vars

(* ------------- the life cycle, with every promise settling ------------- *)

\* The steps that start or settle a load, in a view that stays mounted.  The
\* pointer handlers and playExpression / playMotion change neither isLoading
\* nor a run and are left out.
LiveNext ==
  \/ \E id \in SelectableModels : SelectModel(id)
  \/ InitResolved
  \/ \E allocated \in BOOLEAN : InitRejected(allocated)
  \/ \E ok \in BOOLEAN : ModuleSettle(ok)
  \/ \E r \in 1..MaxLoads : LoadGotModule(r)
  \/ \E r \in 1..MaxLoads : LoadModuleFailed(r)
  \/ \E r \in 1..MaxLoads, loaded \in ModelCases : LoadResolved(r, loaded)
  \/ \E r \in 1..MaxLoads : LoadRejected(r)

\* a promise that a run awaits settles and the continuation runs: the import
\* of the loader module (line 73), the await of it in a run (line 130) or
\* Live2DModel.from in a run (line 133)
SettleStep ==
  \/ \E ok \in BOOLEAN : ModuleSettle(ok)
  \/ \E r \in 1..MaxLoads : LoadGotModule(r) \/ LoadModuleFailed(r)
  \/ \E r \in 1..MaxLoads :
       (\E loaded \in ModelCases : LoadResolved(r, loaded)) \/ LoadRejected(r)

\* While a promise is outstanding, one eventually settles.
Settling == WF_vars(SettleStep)

LiveSpec == Init /\ [][LiveNext]_vars /\ Settling

(* ------------------- the hook behind the sidebar ----------------------- *)

\* variant: the controls of the sidebar are always enabled
ControlsNeverDisabled == FALSE

\* live2d-sidebar.tsx lines 34, 56 and 76: disabled={isLoading}
ControlsDisabled == isLoading

\* live2d-sidebar.tsx lines 30-41: the <select>, its onChange calling
\* setSelectedModel
SidebarSelect(id) ==
  /\ ~ControlsDisabled
  /\ SelectModel(id)

\* live2d-sidebar.tsx lines 51-60: one button per entry of expressions
SidebarExpression(i) ==
  /\ ~ControlsDisabled
  /\ i \in 1..Len(expressions)
  /\ PlayExpression(expressions[i])

\* live2d-sidebar.tsx lines 71-80: one button per entry of motions
SidebarMotion(i) ==
  /\ ~ControlsDisabled
  /\ i \in 1..Len(motions)
  /\ PlayMotion(motions[i].group, motions[i].index)

\* The hook driven through the sidebar alone: its own promises settle as
\* before, selections and triggers come from the sidebar's controls.
ShellNext ==
  \/ \E id \in SelectableModels : SidebarSelect(id)
  \/ \E i \in 1..Len(expressions) : SidebarExpression(i)
  \/ \E i \in 1..Len(motions) : SidebarMotion(i)
  \/ InitResolved
  \/ \E allocated \in BOOLEAN : InitRejected(allocated)
  \/ \E ok \in BOOLEAN : ModuleSettle(ok)
  \/ \E r \in 1..MaxLoads : LoadGotModule(r)
  \/ \E r \in 1..MaxLoads : LoadModuleFailed(r)
  \/ \E r \in 1..MaxLoads, loaded \in ModelCases : LoadResolved(r, loaded)
  \/ \E r \in 1..MaxLoads : LoadRejected(r)
  \/ Teardown

ShellSpec == Init /\ [][ShellNext]_vars

(* ---------------- one load, over the loader's results ----------------- *)

SeqsUpTo(S, n) == UNION {[1..k -> S] : k \in 0..n}

\* expression entries with either field missing, and with both
ExprEntries == {Expr(N, n) : N \in {"", "F01", "F02"}, n \in {"", "F01", "f03"}}
ExpressionLists == SeqsUpTo(ExprEntries, MaxEntries)

\* motions maps: groups with distinct keys, in the order Object.entries lists
\* them
GroupNames == {"A", "B", "Idle"}
MotionMaps ==
  {gs \in SeqsUpTo({Grp(g, k) : g \in GroupNames, k \in 0..MaxItems}, MaxGroups) :
     \A i, j \in 1..Len(gs) : i # j => gs[i].group # gs[j].group}

SettingsInputs ==
  SettingsCases
  \cup { [present |-> p, hasExpressions |-> FALSE, expressions |-> <<>>,
          hasMotions |-> FALSE, motions |-> <<>>] : p \in BOOLEAN }
  \cup { [present |-> TRUE, hasExpressions |-> TRUE, expressions |-> es,
          hasMotions |-> FALSE, motions |-> <<>>] : es \in ExpressionLists }
  \cup { [present |-> TRUE, hasExpressions |-> FALSE, expressions |-> <<>>,
          hasMotions |-> TRUE, motions |-> gs] : gs \in MotionMaps }

Dims == {200 * k : k \in 1..MaxDim}

LoadInputs ==
  {Loaded(400, 800, settings) : settings \in SettingsInputs}
  \cup {Loaded(w, h, settings) : w \in Dims, h \in Dims,
                                 settings \in {s \in SettingsCases : ~s.present}}

\* the first run of the hook for modelName, awaiting Live2DModel.from
\* (line 133)
AwaitingRun(modelName) ==
  [NewRun(1, modelName) EXCEPT !.pc = "awaitModel"]

\* The hook with its application created, the loader module imported and the
\* first run awaiting Live2DModel.from (line 133): for the default model on a
\* container of any of the sizes, and for every model of the catalog
\* (selected before the application was ready) on the container of Spec.
LoadInit ==
  /\ \E modelName \in ModelName, w \in Dims, h \in Dims :
       /\ modelName = DEFAULT_MODEL
            \/ (w = ContainerWidth /\ h = ContainerHeight)
       /\ selectedModel = modelName
       /\ runs = <<AwaitingRun(modelName)>>
       /\ surfaces =
            <<[NewSurface(TRUE, 0) EXCEPT !.width = w, !.height = h]>>
  /\ appReady = TRUE
  /\ isLoading = TRUE
  /\ error = NoError
  /\ expressions = <<>>
  /\ motions = <<>>
  /\ pixiAppRef = 1
  /\ live2dModelRef = 0
  /\ rafIdRef = 0
  /\ frameQueue = <<>>
  /\ live2dModule = "resolved"
  /\ importCount = 1
  /\ initPc = "settled"
  /\ initAborted = FALSE
  /\ loadCleanup = 1
  /\ handles = <<>>
  /\ stage = {}
  /\ listeners = TRUE
  /\ forwarded = <<>>
  /\ event = <<>>
  /\ unmounted = 0

LoadNext == \E loaded \in LoadInputs : LoadResolved(1, loaded)

LoadSpec == LoadInit /\ [][LoadNext]_vars

(* ------------------------- vocabulary of the claims -------------------- *)

Runs == 1..Len(runs)
Handles == 1..Len(handles)
Surfaces == 1..Len(surfaces)

\* run r returns in this step (its promise settles or it aborts early)
Settles(r) == r \in Runs /\ runs[r].pc # "done" /\ runs'[r].pc = "done"

\* the handles this step created
NewHandles == (1..Len(handles')) \ Handles

\* the handles that existed before the step are as they were
OldHandlesKept == \A h \in Handles : handles'[h] = handles[h]

\* what a settling run may do when its result must be discarded: the handle it
\* got is destroyed and was never on the stage, nothing else changes
DiscardedQuietly ==
  /\ UNCHANGED <<session, live2dModelRef, stage>>
  /\ OldHandlesKept
  /\ \A h \in NewHandles :
       /\ handles'[h].destroyed = 1
       /\ ~handles'[h].everAttached
       /\ h \notin stage'

(* ------------------------------- C1 ------------------------------------ *)

\* C1: in every reachable state at most one handle is a child of the stage.
AtMostOneAttached == Cardinality(stage) <= 1

\* a later run has attached its handle after an earlier handle was attached
WitnessSwapAttached ==
  \E h \in stage, g \in Handles :
    /\ g # h
    /\ handles[g].everAttached
    /\ handles[h].run > handles[g].run

(* ------------------------------- C2 ------------------------------------ *)

\* C2: when a run that a newer run has superseded returns (its module wait or
\* its Live2DModel.from settles either way), the session state, the stored
\* handle and the stage are unchanged, and a handle it obtained is destroyed
\* without having been attached.
SupersededRunIsInvisible ==
  [][\A r \in Runs :
       (Settles(r) /\ runs[r].aborted /\ r < Len(runs)) => DiscardedQuietly]_vars

\* a superseded run got its handle while the view was mounted and a newer run
\* was still loading
WitnessSupersededResolved ==
  \E r \in Runs :
    /\ r < Len(runs)
    /\ runs[r].outcome = "aborted"
    /\ runs[r].handle # 0
    /\ unmounted = 0
    /\ isLoading

(* ------------------------------- C3 ------------------------------------ *)

\* C3: while mounted, once the run started last has returned, the stored handle
\* (if any) is the only child of the stage, was loaded for selectedModel, and
\* expressions/motions are what the extractor yields for it; older runs may
\* settle before or after.
LatestSelectionWins ==
  (unmounted = 0 /\ loadCleanup # 0 /\ runs[loadCleanup].pc = "done") =>
    /\ stage = IF live2dModelRef = 0 THEN {} ELSE {live2dModelRef}
    /\ live2dModelRef # 0 =>
         /\ handles[live2dModelRef].model = selectedModel
         /\ handles[live2dModelRef].run = loadCleanup
         /\ expressions = ExtractExpressions(handles[live2dModelRef].settings)
         /\ motions = ExtractMotions(handles[live2dModelRef].settings)

\* the older run settled after the newer one had attached its handle, and the
\* newer handle carries expressions
WitnessOlderSettledLater ==
  /\ unmounted = 0
  /\ Len(runs) >= 2
  /\ runs[1].pc = "done" /\ runs[1].outcome = "aborted"
  /\ runs[2].outcome = "attached"
  /\ runs[1].handle > runs[2].handle
  /\ live2dModelRef = runs[2].handle
  /\ expressions # <<>>

(* ------------------------------- C4 ------------------------------------ *)

\* C4: a run that returns after the view was unmounted changes no session
\* state, and a handle it obtained is destroyed without having been attached.
LateRunAfterTeardownIsInvisible ==
  [][\A r \in Runs : (Settles(r) /\ unmounted > 0) => DiscardedQuietly]_vars

\* the run that was current at unmount got its handle afterwards
WitnessResolvedAfterTeardown ==
  /\ unmounted > 0
  /\ loadCleanup # 0
  /\ loadCleanup = Len(runs)
  /\ runs[loadCleanup].outcome = "aborted"
  /\ runs[loadCleanup].handle # 0
  /\ handles[runs[loadCleanup].handle].destroyed = 1

(* ------------------------------- C5 ------------------------------------ *)

\* everything the session held has been given back
AllReleased ==
  /\ \A r \in Runs : runs[r].pc # "done" => runs[r].aborted
  /\ live2dModelRef = 0
  /\ stage = {}
  /\ \A h \in Handles : handles[h].destroyed >= 1
  /\ pixiAppRef = 0
  /\ \A s \in Surfaces : surfaces[s].returned => surfaces[s].destroyed >= 1
  /\ ~listeners
  /\ frameQueue = <<>>

\* C5: in the state right after the unmount cleanups ran, the pending run is
\* aborted, the handle that was attached is detached and destroyed, the
\* application is destroyed and the pointer listeners are removed.
TeardownReleasesEverything ==
  [][unmounted' > unmounted => AllReleased']_vars

(* ------------------------------- C6 ------------------------------------ *)

\* C6: destroy() runs at most once on every handle and on every application.
NoDoubleRelease ==
  /\ \A h \in Handles : handles[h].destroyed <= 1
  /\ \A s \in Surfaces : surfaces[s].destroyed <= 1

\* a swapped-out handle and the application have been destroyed, a further
\* run started after the swap, and the cleanups ran a second time
WitnessReleasedOnce ==
  /\ unmounted = 2
  /\ Len(runs) = 3
  /\ \E h \in Handles : handles[h].everAttached /\ handles[h].destroyed = 1
  /\ \E s \in Surfaces : surfaces[s].destroyed = 1

(* ------------------------------- C7 ------------------------------------ *)

LiveSurfaces == {s \in Surfaces : surfaces[s].destroyed = 0}

\* a step of a model switch: the selection changes, or a run settles
SwitchStep ==
  \/ selectedModel' # selectedModel
  \/ \E r \in Runs : Settles(r)

\* C7: at most one application is alive after every step, and a step of a
\* model switch neither constructs nor destroys an application and leaves
\* pixiAppRef as it was; the run it starts is handed that same application.
OneSurfaceReusedAcrossSwitches ==
  [][/\ Cardinality(LiveSurfaces') <= 1
     /\ SwitchStep =>
          /\ surfaces' = surfaces
          /\ pixiAppRef' = pixiAppRef
          /\ \A r \in (1..Len(runs')) \ Runs : runs'[r].app = pixiAppRef]_vars

\* two switches have completed on the first application, which is still alive
WitnessSwitchedOnSameSurface ==
  /\ unmounted = 0
  /\ pixiAppRef = 1
  /\ surfaces[1].destroyed = 0
  /\ Len(runs) >= 2
  /\ \A r \in Runs : runs[r].app = 1
  /\ selectedModel # DEFAULT_MODEL
  /\ live2dModelRef # 0

(* ------------------------------- C8 ------------------------------------ *)

\* C8: once the cleanups have run and createPixiApp has settled, every
\* application it returned has been destroyed exactly once.
SurfaceDestroyedOnceAfterTeardown ==
  (unmounted > 0 /\ initPc = "settled") =>
    \A s \in Surfaces : surfaces[s].returned => surfaces[s].destroyed = 1

\* the application was stored and used, then destroyed by the cleanup
WitnessStoredSurfaceDestroyed ==
  /\ unmounted > 0
  /\ appReady
  /\ Len(surfaces) = 1
  /\ surfaces[1].returned
  /\ surfaces[1].destroyed = 1
  /\ pixiAppRef = 0

(* ------------------------------- C9 ------------------------------------ *)

\* createPixiApp settles in this step
InitSettles == initPc = "pending" /\ initPc' = "settled"

\* C9: when createPixiApp settles after the cleanups ran, an application it
\* returned is destroyed at once, pixiAppRef stays null, appReady stays false,
\* no run starts and no session state changes (a rejection sets no error).
LateSurfaceIsDiscarded ==
  [][(InitSettles /\ unmounted > 0) =>
       /\ UNCHANGED <<session, refs, loadEff, handles, stage, pointer>>
       /\ pixiAppRef' = 0
       /\ ~appReady'
       /\ \A s \in (1..Len(surfaces')) \ Surfaces :
            surfaces'[s].returned => surfaces'[s].destroyed = 1]_vars

\* the application arrived after the cleanups and was destroyed unused
WitnessLateSurfaceDestroyed ==
  /\ unmounted > 0
  /\ ~appReady
  /\ runs = <<>>
  /\ isLoading
  /\ error = NoError
  /\ Len(surfaces) = 1
  /\ surfaces[1].returned
  /\ surfaces[1].destroyed = 1

(* ------------------------------- C10 ----------------------------------- *)

\* C10: running the cleanups again changes nothing: no destroy, no abort, no
\* state change.
SecondTeardownIsNoOp ==
  [][(unmounted >= 1 /\ unmounted' > unmounted) =>
       UNCHANGED <<session, refs, loader, initEff, loadEff, world, pointer,
                   forwarded>>]_vars

\* the cleanups ran twice on a session that held an application, an attached
\* handle and a pending run... the second run found them already given back
WitnessTornDownTwice ==
  /\ unmounted = 2
  /\ appReady
  /\ \E s \in Surfaces : surfaces[s].destroyed = 1
  /\ \E r \in Runs : runs[r].aborted /\ runs[r].pc # "done"

(* ------------------------------- C11 ----------------------------------- *)

\* the step handled setSelectedModel with the model that was already selected
Reselects ==
  event' = Event("setSelectedModel", selectedModel, 0, 0) /\ event' # event

\* C11: re-selecting the selected model on a ready surface starts a load
\* run: isLoading becomes true, the attached handle is released and a new
\* handle is requested.
ReselectRerunsLoad ==
  [][(Reselects /\ appReady /\ pixiAppRef # 0) =>
       /\ isLoading'
       /\ live2dModelRef' = 0
       /\ Len(runs') = Len(runs) + 1
       /\ live2dModelRef # 0 => handles'[live2dModelRef].destroyed = 1]_vars

(* ------------------------------- C12 ----------------------------------- *)

\* the step handled setSelectedModel
Selects == event' # <<>> /\ event' # event /\ event'[1].op = "setSelectedModel"

\* C12: a selection made before the surface is ready is recorded and starts no
\* run; the step that makes the surface ready starts exactly one run, for the
\* model selected then.
PendingSelectionLoadsOnceReady ==
  [][/\ (Selects /\ ~appReady) =>
          /\ selectedModel' = event'[1].id
          /\ UNCHANGED <<appReady, isLoading, error, expressions, motions,
                         refs, loader, initEff, loadEff, world>>
     /\ (~appReady /\ appReady') =>
          /\ runs = <<>>
          /\ Len(runs') = 1
          /\ runs'[1].model = selectedModel
          /\ selectedModel' = selectedModel
          /\ loadCleanup' = 1]_vars

\* the only run was started for a model selected before the surface was ready
WitnessPendingSelectionLoaded ==
  /\ appReady
  /\ Len(runs) = 1
  /\ runs[1].model # DEFAULT_MODEL
  /\ runs[1].model = selectedModel

(* ------------------------------- C13 ----------------------------------- *)

\* run r, not aborted, returns in this step without a handle: its load failed
Fails(r) == Settles(r) /\ ~runs[r].aborted /\ Len(handles') = Len(handles)

\* C13: when the load of a run that is neither superseded nor unmounted fails,
\* expressions and motions are empty, error names the run's model (the selected
\* one), isLoading is false, no handle is stored or on the stage, and every
\* handle that was attached before has been destroyed.
LoadFailureSettles ==
  [][\A r \in Runs : Fails(r) =>
       /\ expressions' = <<>>
       /\ motions' = <<>>
       /\ error' = LoadError(runs[r].model)
       /\ runs[r].model = selectedModel'
       /\ ~isLoading'
       /\ live2dModelRef' = 0
       /\ stage' = {}
       /\ \A h \in Handles :
            handles'[h].everAttached => handles'[h].destroyed = 1]_vars

\* the current run failed after an earlier handle had been attached
WitnessFailedAfterAttached ==
  /\ unmounted = 0
  /\ loadCleanup # 0
  /\ runs[loadCleanup].outcome = "failed"
  /\ error = LoadError(selectedModel)
  /\ \E h \in Handles : handles[h].everAttached /\ handles[h].destroyed = 1

(* ------------------------------- C14 ----------------------------------- *)

\* run r, not aborted, returns in this step with a handle
Succeeds(r) == Settles(r) /\ ~runs[r].aborted /\ NewHandles # {}

\* C14: with a load error shown, selecting a different model starts a run that
\* sets isLoading and clears the error; a run that succeeds attaches its handle
\* and leaves the error cleared.
FailureIsRecoverable ==
  [][/\ ( /\ error = LoadError(selectedModel)
          /\ selectedModel' # selectedModel
          /\ appReady /\ pixiAppRef # 0 ) =>
          /\ isLoading'
          /\ error' = NoError
          /\ Len(runs') = Len(runs) + 1
          /\ runs'[Len(runs')].model = selectedModel'
     /\ \A r \in Runs : Succeeds(r) =>
          /\ error' = NoError
          /\ ~isLoading'
          /\ \A h \in NewHandles : live2dModelRef' = h /\ stage' = {h}]_vars

\* a run failed, a different model was selected and its load succeeded
WitnessRecovered ==
  /\ unmounted = 0
  /\ error = NoError
  /\ \E r1, r2 \in Runs :
       /\ r1 < r2
       /\ runs[r1].outcome = "failed"
       /\ runs[r2].outcome = "attached"
       /\ runs[r2].model # runs[r1].model
       /\ live2dModelRef = runs[r2].handle

(* ------------------------------- C15 ----------------------------------- *)

\* createPixiApp settles in this step without returning an application
InitFails ==
  /\ InitSettles
  /\ \A s \in (1..Len(surfaces')) \ Surfaces : ~surfaces'[s].returned

\* C15: when createPixiApp fails on a mounted view, error is the
\* initialisation message, isLoading is false, appReady stays false and
\* pixiAppRef stays null.
SurfaceFailureReported ==
  [][(InitFails /\ unmounted = 0) =>
       /\ error' = InitError
       /\ ~isLoading'
       /\ ~appReady'
       /\ pixiAppRef' = 0
       /\ runs' = runs]_vars

\* surface creation failed on a mounted view
WitnessSurfaceFailed ==
  /\ unmounted = 0
  /\ initPc = "settled"
  /\ error = InitError
  /\ ~isLoading
  /\ ~appReady
  /\ pixiAppRef = 0

(* ------------------------------- C16 ----------------------------------- *)

\* C16: an application that was constructed by a createPixiApp call that then
\* failed has been destroyed.
PartialSurfaceReleased ==
  \A s \in Surfaces : ~surfaces[s].returned => surfaces[s].destroyed >= 1

(* ------------------------------- C17 ----------------------------------- *)

\* some run has completed with success or failure
SomeRunCompleted == \E r \in Runs : runs[r].outcome \in {"attached", "failed"}

\* C17 as stated: isLoading is true until the first run completes.
LoadingUntilFirstRunCompletes == ~isLoading => SomeRunCompleted

\* C17 amended: isLoading is true until the first run completes or surface
\* creation has failed.
LoadingUntilFirstRunOrInitFailure ==
  ~isLoading =>
    \/ SomeRunCompleted
    \/ initPc = "settled" /\ ~appReady /\ error = InitError

\* the first run completed and cleared isLoading
WitnessFirstRunCleared ==
  /\ ~isLoading
  /\ Len(runs) = 1
  /\ runs[1].outcome \in {"attached", "failed"}

(* ------------------------------- C18 ----------------------------------- *)

\* C18: while the run started last has not returned and the view is mounted,
\* isLoading is true.
LatestRunKeepsLoading ==
  (unmounted = 0 /\ loadCleanup # 0 /\ runs[loadCleanup].pc # "done") =>
    isLoading

\* the superseded run has resolved while the run that superseded it, started
\* after a completed load, is still pending
WitnessStillLoadingAfterSupersede ==
  /\ unmounted = 0
  /\ Len(runs) = 3
  /\ runs[1].outcome = "attached"
  /\ runs[2].pc = "done" /\ runs[2].handle # 0
  /\ runs[3].pc # "done"
  /\ isLoading

(* ------------------------------- C19 ----------------------------------- *)

\* the step handled playExpression or playMotion
Triggers ==
  /\ event' # <<>>
  /\ event' # event \/ forwarded' # forwarded
  /\ event'[1].op \in {"playExpression", "playMotion"}

\* C19: playExpression(name) and playMotion(group, index) call
\* expression(name) / motion(group, index) on the stored handle, which is on
\* the stage, or nothing when none is stored, and change no state.
TriggersOnlyForward ==
  [][Triggers =>
       /\ UNCHANGED <<session, refs, loader, initEff, loadEff, world, pointer>>
       /\ live2dModelRef # 0 => live2dModelRef \in stage
       /\ forwarded' =
            IF live2dModelRef = 0 THEN <<>>
            ELSE IF event'[1].op = "playExpression"
                 THEN Call("expression", live2dModelRef, 0, event'[1].id, "", 0)
                 ELSE Call("motion", live2dModelRef, 0, "", event'[1].id,
                           event'[1].x)]_vars

\* an expression was triggered on the attached handle
WitnessExpressionForwarded ==
  /\ event # <<>>
  /\ event[1].op = "playExpression"
  /\ forwarded # <<>>
  /\ forwarded[1].kind = "expression"
  /\ forwarded[1].model = live2dModelRef
  /\ live2dModelRef \in stage

(* ------------------------------- C20 ----------------------------------- *)

FocusCalls(calls) == SelectSeq(calls, LAMBDA c : c.kind = "focus")

\* the step handled a mousemove with a handle stored
Moves ==
  /\ event' # <<>>
  /\ event'[1].op = "mousemove"
  /\ live2dModelRef # 0
  /\ frameQueue' # frameQueue \/ event' # event

\* C20: a mousemove replaces the pending frame request by one carrying its own
\* coordinate, and a frame makes at most one focus call, with the coordinate
\* of the request left pending, that is of the latest mousemove.
MovesCoalescePerFrame ==
  [][/\ Moves =>
          /\ Len(frameQueue') = 1
          /\ frameQueue'[1].x = event'[1].x
     /\ Len(FocusCalls(forwarded')) <= 1
     /\ FocusCalls(forwarded') # <<>> =>
          /\ Len(frameQueue) = 1
          /\ forwarded'[1].x = frameQueue[1].x
          /\ frameQueue' = <<>>]_vars

\* a second mousemove arrived before the frame and replaced the request of the
\* first, which carried another coordinate
WitnessSecondMoveReplacedFirst ==
  /\ event # <<>>
  /\ event[1].op = "mousemove"
  /\ event[1].dropped # 0
  /\ event[1].dropped # event[1].x
  /\ Len(frameQueue) = 1
  /\ frameQueue[1].x = event[1].x

(* ------------------------------- C21 ----------------------------------- *)

\* C21: every focus or tap call of a step goes to the handle that is stored
\* and on the stage in that step, never to a destroyed one.
ForwardedToAttachedHandle ==
  \A i \in 1..Len(forwarded) :
    forwarded[i].kind \in {"focus", "tap"} =>
      /\ forwarded[i].model = live2dModelRef
      /\ forwarded[i].model \in stage
      /\ handles[forwarded[i].model].destroyed = 0

(* ------------------------------- C22 ----------------------------------- *)

\* C22: the listeners are on the container for as long as the view is
\* mounted, whatever loads run, and are off after the cleanups; after the
\* cleanups no frame request is pending and no focus or tap call is made.
ListenersLiveWithView ==
  /\ unmounted = 0 => listeners
  /\ unmounted > 0 =>
       /\ ~listeners
       /\ frameQueue = <<>>
       /\ \A i \in 1..Len(forwarded) : forwarded[i].kind \notin {"focus", "tap"}

\* the cleanups cancelled a frame request that a mousemove had made
WitnessUnmountCancelledFrame ==
  /\ unmounted = 1
  /\ event # <<>>
  /\ event[1].op = "unmount"
  /\ event[1].dropped # 0
  /\ frameQueue = <<>>
  /\ ~listeners
  /\ live2dModelRef # 0

(* ------------------------------- C23 ----------------------------------- *)

\* C23: a mousemove or click handled while no handle is stored makes no call,
\* requests no frame and changes no state.
PointerWithoutHandleIsNoOp ==
  [][( /\ event' # <<>>
       /\ event'[1].op \in {"mousemove", "click"}
       /\ live2dModelRef = 0 ) =>
       /\ forwarded' = <<>>
       /\ UNCHANGED <<session, refs, loader, initEff, loadEff, world, pointer,
                      unmounted>>]_vars

\* a mousemove arrived after a failed load, with nothing stored or pending
WitnessMoveAfterFailedLoad ==
  /\ event # <<>>
  /\ event[1].op = "mousemove"
  /\ live2dModelRef = 0
  /\ error = LoadError(selectedModel)
  /\ frameQueue = <<>>
  /\ forwarded = <<>>

(* ------------------------------- C24 ----------------------------------- *)

\* min(screenW / w, screenH / h) * 0.8 as a fraction
StatedScale(screenW, screenH, w, h) ==
  IF screenW * h <= screenH * w THEN Rat[4 * screenW, 5 * w]
  ELSE Rat[4 * screenH, 5 * h]

\* (screen - local * scale) / 2 as a fraction
StatedOffset(screen, local, scale) ==
  Rat[screen * scale.den - local * scale.num, 2 * scale.den]

StoredSettings == handles[live2dModelRef].settings

\* the expressions array of settings, empty when there is none
ListedExpressions(settings) ==
  IF settings.present /\ settings.hasExpressions THEN settings.expressions
  ELSE <<>>

\* the entries that carry a name in either field
Named(es) == {i \in 1..Len(es) : es[i].Name # "" \/ es[i].name # ""}

\* the position of entry i among the entries of S
Rank(S, i) == Cardinality({j \in S : j <= i})

\* out holds, in input order, the name of every entry of es that has one: Name
\* when it has it, name otherwise
NamesInOrder(es, out) ==
  /\ Len(out) = Cardinality(Named(es))
  /\ \A i \in Named(es) :
       out[Rank(Named(es), i)] =
         IF es[i].Name # "" THEN es[i].Name ELSE es[i].name

\* C25: expressions holds the names of the stored handle's expression entries:
\* Name if present, else name, in input order, entries with neither skipped,
\* duplicates kept; N named entries give N names.
ExpressionsFollowSettings ==
  live2dModelRef # 0 =>
    LET es == ListedExpressions(StoredSettings)
    IN  /\ NamesInOrder(es, expressions)
        /\ Named(es) = 1..Len(es) => Len(expressions) = Len(es)

\* extracted: a canonical name, an alternate one, an entry skipped, and a
\* duplicate kept where both fields were present
WitnessNamesExtracted ==
  /\ live2dModelRef # 0
  /\ Len(ListedExpressions(StoredSettings)) = 4
  /\ expressions = <<"F01", "f02", "F01">>

(* ------------------------------- C26 ----------------------------------- *)

\* the motions map of settings, empty when there is none
ListedMotions(settings) ==
  IF settings.present /\ settings.hasMotions THEN settings.motions ELSE <<>>

\* the number of items in the groups before group p
RECURSIVE ItemsBefore(_, _)
ItemsBefore(gs, p) ==
  IF p <= 1 THEN 0 ELSE ItemsBefore(gs, p - 1) + gs[p - 1].items

\* C26: motions holds one entry per item of every group of the stored handle's
\* motions map, groups in key order, items in order, with the 0-based index in
\* the group and the name "{group} #{index+1}"; {A: [x, y], B: [z]} gives
\* (A,0,"A #1"), (A,1,"A #2"), (B,0,"B #1").
MotionsFollowSettings ==
  live2dModelRef # 0 =>
    LET gs == ListedMotions(StoredSettings)
    IN  /\ Len(motions) = ItemsBefore(gs, Len(gs) + 1)
        /\ \A p \in 1..Len(gs) : \A i \in 0..(gs[p].items - 1) :
             motions[ItemsBefore(gs, p) + i + 1] =
               [group |-> gs[p].group, name |-> <<gs[p].group, " #", i + 1>>,
                index |-> i]
        /\ gs = <<Grp("A", 2), Grp("B", 1)>> =>
             motions = << [group |-> "A", name |-> <<"A", " #", 1>>, index |-> 0],
                          [group |-> "A", name |-> <<"A", " #", 2>>, index |-> 1],
                          [group |-> "B", name |-> <<"B", " #", 1>>, index |-> 0] >>

\* the motions of {A: [x, y], B: [z]} were extracted
WitnessMotionsExtracted ==
  /\ live2dModelRef # 0
  /\ ListedMotions(StoredSettings) = <<Grp("A", 2), Grp("B", 1)>>
  /\ Len(motions) = 3
  /\ motions[3].group = "B" /\ motions[3].index = 0

(* ------------------------------- C27 ----------------------------------- *)

\* settings are missing, or have neither an expressions nor a motions field
NothingListed(settings) ==
  ~settings.present \/ (~settings.hasExpressions /\ ~settings.hasMotions)

\* C27: with a handle stored whose settings list nothing, expressions and
\* motions are empty, isLoading is false, error is null and the handle is on
\* the stage, its run having completed as a success.
NothingListedIsNoError ==
  (unmounted = 0 /\ live2dModelRef # 0 /\ NothingListed(StoredSettings)) =>
    /\ expressions = <<>>
    /\ motions = <<>>
    /\ ~isLoading
    /\ error = NoError
    /\ live2dModelRef \in stage
    /\ runs[handles[live2dModelRef].run].outcome = "attached"

\* a handle whose settings have neither field was attached
WitnessAttachedWithoutLists ==
  /\ live2dModelRef # 0
  /\ StoredSettings.present
  /\ NothingListed(StoredSettings)
  /\ live2dModelRef \in stage
  /\ ~isLoading

(* ------------------------------- C28 ----------------------------------- *)

\* the runs that completed with a success or a failure
Completed == {r \in Runs : runs[r].outcome \in {"attached", "failed"}}

\* the run that completed last: completions happen in start order, as only the
\* run started last can complete
LastCompleted == CHOOSE r \in Completed : \A q \in Completed : q <= r

\* C28: expressions and motions are those of the load that completed last and
\* of nothing else: the lists of its handle's settings after a success, empty
\* after a failure.
ListsRebuiltOnEveryLoad ==
  Completed # {} =>
    IF runs[LastCompleted].outcome = "failed"
    THEN expressions = <<>> /\ motions = <<>>
    ELSE LET settings == handles[runs[LastCompleted].handle].settings
         IN  /\ NamesInOrder(ListedExpressions(settings), expressions)
             /\ Len(motions) =
                  ItemsBefore(ListedMotions(settings),
                              Len(ListedMotions(settings)) + 1)
             /\ \A i \in 1..Len(motions) :
                  \E p \in 1..Len(ListedMotions(settings)) :
                    motions[i].group = ListedMotions(settings)[p].group

\* a handle with expressions and motions was replaced, on a later load, by one
\* without settings, and the lists are empty
WitnessListsReplaced ==
  \E r1, r2 \in Runs :
    /\ r1 < r2
    /\ runs[r1].outcome = "attached"
    /\ runs[r2].outcome = "attached"
    /\ handles[runs[r1].handle].settings.present
    /\ ~handles[runs[r2].handle].settings.present
    /\ live2dModelRef = runs[r2].handle
    /\ expressions = <<>>
    /\ motions = <<>>

(* ------------------------------- C29 ----------------------------------- *)

\* run r has gone past its await of the loader module with the module
PastModule(r) == runs[r].pc = "awaitModel" \/ runs[r].handle # 0

\* C29: the loader module is imported at most once, by the first run, and
\* every run that got the module finds the one resolved import.
ModuleImportedOnce ==
  /\ importCount <= 1
  /\ runs # <<>> => importCount = 1
  /\ importCount = 0 <=> live2dModule = "null"
  /\ \A r \in Runs : PastModule(r) => live2dModule = "resolved"

\* two runs got the module from one import
WitnessModuleReused ==
  /\ importCount = 1
  /\ \E r1, r2 \in Runs : r1 # r2 /\ PastModule(r1) /\ PastModule(r2)

(* ------------------------------- C30 ----------------------------------- *)

\* C30 as stated: while any run has not returned, no handle is stored or on
\* the stage.
NoHandleWhileAnyRunPending ==
  \A r \in Runs : runs[r].pc # "done" => live2dModelRef = 0 /\ stage = {}

\* C30 amended: while a run that is not superseded has not returned,
\* isLoading is true, error is null, no handle is stored or on the stage and
\* every handle that was attached has been destroyed.
NoHandleWhileCurrentRunPending ==
  \A r \in Runs : (runs[r].pc # "done" /\ ~runs[r].aborted) =>
    /\ isLoading
    /\ error = NoError
    /\ live2dModelRef = 0
    /\ stage = {}
    /\ \A h \in Handles : handles[h].everAttached => handles[h].destroyed >= 1

\* a run started over an attached handle and a shown error is pending
WitnessRunStartedOverHandle ==
  /\ unmounted = 0
  /\ \E r \in Runs : runs[r].pc # "done" /\ ~runs[r].aborted
  /\ \E h \in Handles : handles[h].everAttached /\ handles[h].destroyed = 1
  /\ \E r \in Runs : runs[r].outcome = "failed"
  /\ live2dModelRef = 0

(* ------------------------------- C31 ----------------------------------- *)

\* the runs whose token (the signal of their AbortController) is valid
ValidTokens == {r \in Runs : ~runs[r].aborted}

\* C31: at most one run holds a valid token; a step that starts a run
\* invalidates the token of every earlier run, a teardown invalidates the
\* token of the current run, and an invalidated token never becomes valid
\* again.
AtMostOneValidToken ==
  [][/\ \A r \in Runs : runs[r].aborted => runs'[r].aborted
     /\ Cardinality({r \in 1..Len(runs') : ~runs'[r].aborted}) <= 1
     /\ Len(runs') > Len(runs) => \A r \in Runs : runs'[r].aborted
     /\ unmounted' > unmounted =>
          \A r \in 1..Len(runs') : runs'[r].aborted]_vars

\* three runs were started: the first two are invalidated, one of them while
\* it was still pending, and the third holds the valid token
WitnessThirdRunHoldsToken ==
  /\ Len(runs) = 3
  /\ ValidTokens = {3}
  /\ \E r \in {1, 2} : runs[r].pc # "done"
  /\ unmounted = 0

(* ------------------------------- C32 ----------------------------------- *)

\* the step puts a handle it created on the stage of surface s
AttachesTo(s) ==
  \E h \in NewHandles :
    /\ h \in stage'
    /\ runs[handles'[h].run].app = s

\* C32: a handle is only ever attached to a surface that has not been
\* destroyed, and from a teardown on no step attaches a handle.
NeverAttachesToDestroyedSurface ==
  [][/\ \A s \in Surfaces : AttachesTo(s) => surfaces[s].destroyed = 0
     /\ unmounted >= 1 => stage' \subseteq stage]_vars

\* after a teardown destroyed the surface, the loader resolved for the run
\* that was pending on it: its handle was released and never attached
WitnessResolvedForDestroyedSurface ==
  /\ unmounted >= 1
  /\ \E r \in Runs :
       /\ runs[r].handle # 0
       /\ surfaces[runs[r].app].destroyed >= 1
       /\ ~handles[runs[r].handle].everAttached
       /\ handles[runs[r].handle].destroyed = 1
       /\ stage = {}

(* ------------------------------- C33 ----------------------------------- *)

\* C33: whenever an error is shown, isLoading is false.
ErrorImpliesNotLoading == error # NoError => ~isLoading

\* the error of a failed load is shown, after a load had succeeded
WitnessLoadErrorShown ==
  /\ \E r \in Runs : error = LoadError(runs[r].model)
  /\ \E r \in Runs : runs[r].outcome = "attached"
  /\ ~isLoading

(* ------------------------------- C34 ----------------------------------- *)

InitFailed == initPc = "settled" /\ \A s \in Surfaces : ~surfaces[s].returned

\* C36: once the creation of the surface has failed, the surface never
\* becomes ready, no run is ever started and no handle attached, a selection
\* is recorded and nothing else, and the error reported for the failure
\* stays.
FailedSurfaceNeverLoads ==
  [][InitFailed' =>
       /\ ~appReady'
       /\ pixiAppRef' = 0
       /\ runs' = <<>>
       /\ handles' = <<>>
       /\ stage' = {}
       /\ live2dModelRef' = 0
       /\ unmounted' = 0 => error' = InitError /\ ~isLoading'
       /\ (InitFailed /\ error = InitError) => error' = InitError
       /\ (InitFailed /\ Selects) => selectedModel' = event'[1].id]_vars

\* after the failure another model was selected: it is recorded, the error
\* of the failure is still shown and there is no run
WitnessSelectedAfterInitFailure ==
  /\ InitFailed
  /\ unmounted = 0
  /\ event # <<>>
  /\ event[1].op = "setSelectedModel"
  /\ selectedModel = event[1].id
  /\ selectedModel # DEFAULT_MODEL
  /\ error = InitError
  /\ runs = <<>>

(* ------------------------------- C37 ----------------------------------- *)

\* run r reports a failure in this step
ReportsFailure(r) ==
  /\ Settles(r)
  /\ runs'[r].outcome = "failed"
  /\ error' = LoadError(runs[r].model)
  /\ ~isLoading'

\* C37: a rejected import of the loader module is never retried: it stays
\* rejected, nothing is imported again, every run that returns afterwards
\* without having been superseded reports a failure, and no handle is ever
\* created or attached.
RejectedModuleNeverRetried ==
  [][live2dModule = "rejected" =>
       /\ live2dModule' = "rejected"
       /\ importCount' = importCount
       /\ handles' = <<>>
       /\ stage' = {}
       /\ live2dModelRef' = 0
       /\ \A r \in Runs : (Settles(r) /\ ~runs[r].aborted) => ReportsFailure(r)
       /\ \A r \in Runs : runs[r].pc # "done" => runs[r].pc = "awaitModule"]_vars

\* with the import rejected, runs for two different models have failed, the
\* later one started after the rejection
WitnessBothModelsFailed ==
  /\ live2dModule = "rejected"
  /\ \E r1, r2 \in Runs :
       /\ r1 < r2
       /\ runs[r1].outcome = "failed"
       /\ runs[r2].outcome = "failed"
       /\ runs[r1].model # runs[r2].model
       /\ error = LoadError(runs[r2].model)
  /\ handles = <<>>

(* ------------------------------- C35 ----------------------------------- *)

\* C35: in a view that is never torn down, when the surface has been created
\* and every promise the runs await settles, isLoading eventually becomes
\* false and stays false.  (The runs are finitely many: MaxLoads.)
LoadingEventuallyEnds == <>appReady => <>[](~isLoading)

\* every run that was started has returned, one of them after it was
\* superseded while pending, and isLoading is false
WitnessAllRunsReturned ==
  /\ appReady
  /\ unmounted = 0
  /\ Len(runs) = MaxLoads
  /\ \A r \in Runs : runs[r].pc = "done"
  /\ \E r \in Runs : runs[r].outcome = "aborted"
  /\ ~isLoading

(* ------------------------------- C38 ----------------------------------- *)

\* the runs that have not returned
PendingRuns == {r \in Runs : runs[r].pc # "done"}

\* C38: driven through the sidebar alone, no selection and no expression or
\* motion is handled while isLoading is true; so no run is started while
\* another is pending, no pending run is superseded before a teardown, and
\* nothing is forwarded to a handle during a load.
SidebarNeverActsWhileLoading ==
  [][/\ (Selects \/ Triggers) => ~isLoading
     /\ Len(runs') > Len(runs) => PendingRuns = {}
     /\ unmounted' = 0 =>
          \A r \in Runs : (~runs[r].aborted /\ runs'[r].aborted) =>
                             runs[r].pc = "done"
     /\ forwarded' # <<>> => ~isLoading /\ ~isLoading']_vars

\* through the sidebar a second model was selected and loaded after the
\* first load had completed, and a motion of it was triggered
WitnessSidebarSwitchedAndPlayed ==
  /\ unmounted = 0
  /\ Len(runs) = 2
  /\ runs[1].outcome = "attached"
  /\ runs[2].outcome = "attached"
  /\ forwarded # <<>>
  /\ forwarded[1].kind = "motion"
  /\ forwarded[1].model = runs[2].handle

(* ------------------------------- C39 ----------------------------------- *)

\* the manifest paths of the catalog, in the order of MODEL_NAMES
ManifestPaths == [i \in DOMAIN MODEL_NAMES |-> getModelPath(MODEL_NAMES[i])]

\* C39: the catalog has eight distinct identifiers, the default model among
\* them; the manifest path of an identifier is "/live2d/{id}/{id}.model3.json",
\* different for different identifiers; and every run is for an identifier
\* of the catalog and requests the manifest path of that identifier.
CatalogIsClosedAndPathsInjective ==
  /\ Len(MODEL_NAMES) = 8
  /\ \A i, j \in DOMAIN MODEL_NAMES : MODEL_NAMES[i] = MODEL_NAMES[j] => i = j
  /\ DEFAULT_MODEL \in ModelName
  /\ \A i, j \in DOMAIN MODEL_NAMES : ManifestPaths[i] = ManifestPaths[j] => i = j
  /\ \A i \in DOMAIN MODEL_NAMES :
       Len(ManifestPaths[i]) = 2 * Len(MODEL_NAMES[i]) + 21
  /\ ManifestPaths[1] = "/live2d/Haru/Haru.model3.json"
  /\ ManifestPaths[8] = "/live2d/Wanko/Wanko.model3.json"
  /\ selectedModel \in ModelName
  /\ \A r \in Runs :
       /\ runs[r].model \in ModelName
       /\ runs[r].path \in {ManifestPaths[i] : i \in DOMAIN MODEL_NAMES}
       /\ \A i \in DOMAIN MODEL_NAMES :
            runs[r].path = ManifestPaths[i] <=> runs[r].model = MODEL_NAMES[i]

\* the handle of the last model of the catalog is attached, loaded from that
\* model's manifest
WitnessLastModelLoadedFromItsManifest ==
  /\ stage # {}
  /\ \E r \in Runs :
       /\ runs[r].model = MODEL_NAMES[8]
       /\ runs[r].model # DEFAULT_MODEL
       /\ runs[r].path = "/live2d/Wanko/Wanko.model3.json"
       /\ runs[r].outcome = "attached"

====
